---- MODULE Spec2Model ----
(***************************************************************************)
(* Circle Survival (src/script.js, first script variant, lines 1-567).     *)
(*                                                                         *)
(* Units.  Time is in milliseconds (the unit of performance.now() and of   *)
(* the requestAnimationFrame timestamp); the code's seconds are ms/1000.   *)
(* Lengths (x, y, radius) are in 1/1000 pixel, so that                     *)
(* radius += growth * dt  is  radius + growth[px/s] * dt[ms]  exactly.     *)
(* Spawn intervals are in 1/1000 ms.  Multiplications by 0.9, 0.8, 1.2 and *)
(* 0.5 are done on these integers, truncating below the last unit.         *)
(*                                                                         *)
(* The host (browser) is modelled by: the set of pending setTimeout and    *)
(* requestAnimationFrame callbacks, the elements attached to the game      *)
(* area (a click is only ever dispatched to an attached element), the      *)
(* visibility of the two overlays (the start button lives in the level     *)
(* overlay, the close and debug-level buttons in the help overlay), the    *)
(* frame timestamp and Math.random().                                      *)
(***************************************************************************)
EXTENDS Integers, Sequences, FiniteSets, TLC

\* ---------------------------------------------------------------- bounds
MaxCircles == 2      \* size of the entity collection explored
MaxLevel == 2        \* highest level explored
MaxStray == 1        \* pending callbacks whose handle has been overwritten
MaxScore == 2        \* score values explored per round
MaxSpawns == 3       \* spawn-timer firings explored per round

\* ------------------------------------------------------- program constants
BASE_SPAWN_INTERVAL == 2000
MIN_SPAWN_INTERVAL == 300
RoundMs == 30000       \* timeLeft = 30 (seconds)
WarpIntervalMs == 8000 \* timeWarpConfig.interval
WarpDurationMs == 3000 \* timeWarpConfig.duration
InitialRadiusPx == 15
InitialGrowth == 20
FuseMs == 3500
DriftSpeed == 40
ChildDriftSpeed == 30
ChildMinRadiusPx == 10
ShockMinRadiusPx == 5
DebugLevels == 6
NoFuse == -1000000     \* fuseTimeLeft: null

\* (timestamp - lastUpdateTime) / 1000: units per second, and per pixel
Milli == 1000

\* the play area reported by getBoundingClientRect(), in 1/1000 px
RectWidth == 200 * Milli
RectHeight == 180 * Milli

VARIABLES
    circles,            \* the array `circles`; the element of each of its
                        \* circles is attached to the game area
    staleElems,         \* elements still attached to the game area whose circle
                        \* is no longer in `circles`: the circle objects their
                        \* click handlers captured
    gameRunning, paused, currentLevel, timeLeft,
    baseSpawnInterval, spawnInterval, score,
    warpActive, nextWarpAt, warpEndAt,
    resumeAfterHelp,
    overlayHidden,      \* overlay.classList contains 'hidden'
    helpHidden,         \* helpOverlay.classList contains 'hidden'
    spawnPending,       \* the timeout named by spawnTimeoutId is pending
    strayTimeouts,      \* pending timeouts no longer named by spawnTimeoutId
    framePending,       \* the frame request named by animationFrameId is pending
    strayFrames,        \* pending frame requests no longer named by it
    lastUpdateTime,     \* "now": set from performance.now() at this instant;
                        \* "past": set from performance.now(), and a timer
                        \* delay has elapsed since; "frame": set from the
                        \* timestamp of the last processed frame
    bestLevel,          \* localStorage 'bestLevel' (0 when absent)
    roundEnd            \* which of levelComplete() / gameOver() has run since
                        \* the last (re)start: "none", "levelComplete", "gameOver"

vars == <<circles, staleElems, gameRunning, paused, currentLevel, timeLeft,
          baseSpawnInterval, spawnInterval, score, warpActive, nextWarpAt,
          warpEndAt, resumeAfterHelp, overlayHidden, helpHidden, spawnPending,
          strayTimeouts, framePending, strayFrames, lastUpdateTime, bestLevel,
          roundEnd>>

roundVars == <<circles, staleElems, gameRunning, paused, currentLevel, timeLeft,
               baseSpawnInterval, spawnInterval, score, warpActive, nextWarpAt,
               warpEndAt>>
timerVars == <<spawnPending, strayTimeouts>>
frameVars == <<framePending, strayFrames>>

\* ---------------------------------------------------------------- helpers
Max(a, b) == IF a >= b THEN a ELSE b
Min(a, b) == IF a <= b THEN a ELSE b
Abs(a) == IF a >= 0 THEN a ELSE -a
RemoveAt(s, i) == SubSeq(s, 1, i - 1) \o SubSeq(s, i + 1, Len(s))

\* x * 0.9, on 1/1000 ms
Accelerate(x) == (x * 9) \div 10

\* BASE_SPAWN_INTERVAL * Math.pow(0.9, currentLevel - 1), in 1/1000 ms
RECURSIVE Pow09(_, _)
Pow09(x, n) == IF n <= 0 THEN x ELSE Pow09(Accelerate(x), n - 1)
LevelSpawnInterval_Unscaled(level) == BASE_SPAWN_INTERVAL * Milli
LevelSpawnInterval(level) == Pow09(BASE_SPAWN_INTERVAL * Milli, level - 1)

\* warpActive ? baseSpawnInterval * timeWarpConfig.factor : baseSpawnInterval
WarpFactor_None(x) == x
WarpFactor(x) == x \div 2
EffectiveInterval(base, warp) == IF warp THEN WarpFactor(base) ELSE base

\* baseSpawnInterval *= spawnAcceleration; Math.max(.., MIN_SPAWN_INTERVAL)
NextBaseInterval_NoFloor(base) == Accelerate(base)
NextBaseInterval(base) == Max(Accelerate(base), MIN_SPAWN_INTERVAL * Milli)

\* fewer than MaxSpawns accelerations have been applied since the level's
\* interval was set (a bound of the exploration, not of the program)
MaySpawn(base, level) == base > Pow09(LevelSpawnInterval(level), MaxSpawns)

\* updateUI(): the stored best level follows currentLevel upwards
BestAfterUI(best, level) == IF level > best THEN level ELSE best

\* spawnNext(): a new timeout is scheduled and its id overwrites spawnTimeoutId
ScheduleStray(pending, stray) == IF pending THEN stray + 1 ELSE stray
CanSchedule(pending, stray) == ScheduleStray(pending, stray) <= MaxStray

\* the run state of the round
Ready == ~gameRunning /\ roundEnd = "none"
Running == gameRunning /\ ~paused /\ roundEnd = "none"
Paused == gameRunning /\ paused /\ roundEnd = "none"
LevelComplete == roundEnd = "levelComplete"
GameOver == roundEnd = "gameOver"

PendingSpawns == (IF spawnPending THEN 1 ELSE 0) + strayTimeouts
PendingFrames == (IF framePending THEN 1 ELSE 0) + strayFrames

\* ---------------------------------------------------------- removeCircle()
\* removeCircle(circles[i]): circles.splice(idx, 1) ...
Splice(cs, i) == IF i >= 1 /\ i <= Len(cs) THEN RemoveAt(cs, i) ELSE cs
\* ... and circle.element.remove(): the element leaves the game area, so it
\* does not join the elements that outlive their circle
Detach_KeepsElement(stale, c) == Append(stale, c)
Detach(stale, c) == stale
\* circles.forEach(c => c.element.remove()): the same for every circle
DetachAll(stale, cs) == stale

\* ------------------------------------------------------------------- Init
Init ==
    /\ circles = <<>>
    /\ staleElems = <<>>
    /\ gameRunning = FALSE
    /\ paused = FALSE
    /\ currentLevel = 1
    /\ timeLeft = RoundMs
    /\ baseSpawnInterval = BASE_SPAWN_INTERVAL * Milli
    /\ spawnInterval = BASE_SPAWN_INTERVAL * Milli
    /\ score = 0
    /\ warpActive = FALSE
    /\ nextWarpAt = WarpIntervalMs
    /\ warpEndAt = 0
    /\ resumeAfterHelp = FALSE
    /\ overlayHidden = FALSE
    /\ helpHidden = TRUE
    /\ spawnPending = FALSE
    /\ strayTimeouts = 0
    /\ framePending = FALSE
    /\ strayFrames = 0
    /\ lastUpdateTime = "frame"
    /\ bestLevel = 0
    /\ roundEnd = "none"

\* ------------------------------------------------------------ resetGame()
\* circles removed from the DOM and the array, timer and intervals reset for
\* currentLevel = level, updateUI(), warp state reset
ResetGame_KeepsWarp(level) ==
    /\ circles' = <<>>
    /\ staleElems' = DetachAll(staleElems, circles)
    /\ timeLeft' = RoundMs
    /\ baseSpawnInterval' = LevelSpawnInterval(level)
    /\ spawnInterval' = LevelSpawnInterval(level)
    /\ bestLevel' = BestAfterUI(bestLevel, level)
    /\ UNCHANGED <<warpActive, nextWarpAt, warpEndAt>>
ResetGame(level) ==
    /\ circles' = <<>>
    /\ staleElems' = DetachAll(staleElems, circles)
    /\ timeLeft' = RoundMs
    /\ baseSpawnInterval' = LevelSpawnInterval(level)
    /\ spawnInterval' = LevelSpawnInterval(level)
    /\ bestLevel' = BestAfterUI(bestLevel, level)
    /\ warpActive' = FALSE
    /\ nextWarpAt' = WarpIntervalMs
    /\ warpEndAt' = 0

\* spawnNext() and requestAnimationFrame(update), called by a handler that
\* found `sp` / `fp` as the pending state of the handles it overwrites
SpawnNext(sp, st) ==
    /\ CanSchedule(sp, st)
    /\ spawnPending' = TRUE
    /\ strayTimeouts' = ScheduleStray(sp, st)
RequestFrame_Dropped(fp, sf) ==
    /\ framePending' = fp
    /\ strayFrames' = sf
RequestFrame(fp, sf) ==
    /\ CanSchedule(fp, sf)
    /\ framePending' = TRUE
    /\ strayFrames' = ScheduleStray(fp, sf)

\* ----------------------------------------------------------- startLevel()
StartLevel(level) ==
    /\ ResetGame(level)
    /\ currentLevel' = level
    /\ gameRunning' = TRUE
    /\ paused' = FALSE
    /\ score' = 0
    /\ lastUpdateTime' = "now"
    /\ SpawnNext(spawnPending, strayTimeouts)
    /\ RequestFrame(framePending, strayFrames)
    /\ roundEnd' = "none"

\* startBtn click: hide the overlay and start the current level
StartClick ==
    /\ ~overlayHidden
    /\ overlayHidden' = TRUE
    /\ StartLevel(currentLevel)
    /\ UNCHANGED <<resumeAfterHelp, helpHidden>>

\* --------------------------------------------------------- restartLevel()
RestartLevel_KeepsScore ==
    /\ ResetGame(currentLevel)
    /\ paused' = FALSE
    /\ score' = score
    /\ lastUpdateTime' = "now"
    /\ gameRunning' = TRUE
    /\ SpawnNext(FALSE, strayTimeouts)
    /\ RequestFrame(FALSE, strayFrames)
    /\ roundEnd' = "none"
    /\ UNCHANGED currentLevel
RestartLevel ==
    /\ ResetGame(currentLevel)
    /\ paused' = FALSE
    /\ score' = 0
    /\ lastUpdateTime' = "now"
    /\ gameRunning' = TRUE
    /\ SpawnNext(FALSE, strayTimeouts)
    /\ RequestFrame(FALSE, strayFrames)
    /\ roundEnd' = "none"
    /\ UNCHANGED currentLevel

\* restartBtn click
RestartClick ==
    /\ IF ~gameRunning
       THEN UNCHANGED <<roundVars, timerVars, frameVars, lastUpdateTime, bestLevel, roundEnd>>
       ELSE RestartLevel
    /\ UNCHANGED <<resumeAfterHelp, overlayHidden, helpHidden>>

\* ------------------------------------------------- resumeBtn click (toggle)
ResumeClick_NoAnchor ==
    /\ IF ~gameRunning
       THEN UNCHANGED <<paused, timerVars, frameVars>>
       ELSE IF ~paused
            THEN /\ paused' = TRUE
                 /\ spawnPending' = FALSE
                 /\ framePending' = FALSE
                 /\ UNCHANGED <<strayTimeouts, strayFrames>>
            ELSE /\ paused' = FALSE
                 /\ SpawnNext(spawnPending, strayTimeouts)
                 /\ RequestFrame(framePending, strayFrames)
    /\ UNCHANGED <<circles, staleElems, gameRunning, currentLevel, timeLeft,
                   baseSpawnInterval, spawnInterval, score, warpActive,
                   nextWarpAt, warpEndAt, resumeAfterHelp, overlayHidden,
                   helpHidden, bestLevel, roundEnd, lastUpdateTime>>
ResumeClick ==
    /\ IF ~gameRunning
       THEN UNCHANGED <<paused, timerVars, frameVars, lastUpdateTime>>
       ELSE IF ~paused
            THEN /\ paused' = TRUE
                 /\ spawnPending' = FALSE
                 /\ framePending' = FALSE
                 /\ UNCHANGED <<strayTimeouts, strayFrames, lastUpdateTime>>
            ELSE /\ paused' = FALSE
                 /\ lastUpdateTime' = "now"
                 /\ SpawnNext(spawnPending, strayTimeouts)
                 /\ RequestFrame(framePending, strayFrames)
    /\ UNCHANGED <<circles, staleElems, gameRunning, currentLevel, timeLeft,
                   baseSpawnInterval, spawnInterval, score, warpActive,
                   nextWarpAt, warpEndAt, resumeAfterHelp, overlayHidden,
                   helpHidden, bestLevel, roundEnd>>

\* ------------------------------------------------------------- openHelp()
\* the value resumeAfterHelp takes when help is opened
HelpResumeFlag(running, isPaused) == running /\ ~isPaused

OpenHelp ==
    /\ helpHidden' = FALSE
    /\ resumeAfterHelp' = HelpResumeFlag(gameRunning, paused)
    /\ IF gameRunning /\ ~paused
       THEN /\ paused' = TRUE
            /\ spawnPending' = FALSE
            /\ framePending' = FALSE
       ELSE UNCHANGED <<paused, spawnPending, framePending>>
    /\ UNCHANGED <<circles, staleElems, gameRunning, currentLevel, timeLeft,
                   baseSpawnInterval, spawnInterval, score, warpActive,
                   nextWarpAt, warpEndAt, overlayHidden, strayTimeouts,
                   strayFrames, lastUpdateTime, bestLevel, roundEnd>>

\* ------------------------------------------------------------ closeHelp()
CloseHelp ==
    /\ ~helpHidden
    /\ helpHidden' = TRUE
    /\ IF resumeAfterHelp /\ gameRunning /\ paused
       THEN /\ paused' = FALSE
            /\ lastUpdateTime' = "now"
            /\ SpawnNext(spawnPending, strayTimeouts)
            /\ RequestFrame(framePending, strayFrames)
       ELSE UNCHANGED <<paused, lastUpdateTime, timerVars, frameVars>>
    /\ resumeAfterHelp' = FALSE
    /\ UNCHANGED <<circles, staleElems, gameRunning, currentLevel, timeLeft,
                   baseSpawnInterval, spawnInterval, score, warpActive,
                   nextWarpAt, warpEndAt, overlayHidden, bestLevel, roundEnd>>

\* ------------------------------------------------- resetProgressBtn click
\* localStorage.removeItem('bestLevel'), then resetGame() whose updateUI()
\* still sees the old currentLevel, then currentLevel = 1, score = 0, and
\* the level overlay is shown
ResetProgressClick ==
    /\ gameRunning' = FALSE
    /\ paused' = FALSE
    /\ spawnPending' = FALSE
    /\ framePending' = FALSE
    /\ circles' = <<>>
    /\ staleElems' = DetachAll(staleElems, circles)
    /\ timeLeft' = RoundMs
    /\ baseSpawnInterval' = LevelSpawnInterval(currentLevel)
    /\ spawnInterval' = LevelSpawnInterval(currentLevel)
    /\ bestLevel' = BestAfterUI(0, currentLevel)
    /\ warpActive' = FALSE
    /\ nextWarpAt' = WarpIntervalMs
    /\ warpEndAt' = 0
    /\ currentLevel' = 1
    /\ score' = 0
    /\ overlayHidden' = FALSE
    /\ roundEnd' = "none"
    /\ UNCHANGED <<resumeAfterHelp, helpHidden, strayTimeouts, strayFrames, lastUpdateTime>>

\* ----------------------------------------------- debug level button click
DebugLevelClick(n) ==
    /\ ~helpHidden
    /\ helpHidden' = TRUE
    /\ ResetGame(n)
    /\ currentLevel' = n
    /\ gameRunning' = TRUE
    /\ paused' = FALSE
    /\ score' = 0
    /\ lastUpdateTime' = "now"
    /\ SpawnNext(FALSE, strayTimeouts)
    /\ RequestFrame(FALSE, strayFrames)
    /\ roundEnd' = "none"
    /\ UNCHANGED <<resumeAfterHelp, overlayHidden>>

\* ------------------------------------------------------------ Math.random()
\* A roll is the outcome of one call of spawnCircle: the two position draws
\* (numerators over FracDen of a number in [0,1)), the outcome of each
\* probability test, and the drift direction <<cos, sin>>.
FracDen == 2
SpawnRolls(fracs, dirs) ==
    [fx : fracs, fy : fracs, fuse : BOOLEAN, splitter : BOOLEAN,
     armored : BOOLEAN, drifter : BOOLEAN, dir : dirs]
\* one child of a splitter: angle on the parent's boundary, drift test, drift angle
ChildRolls(dirs) == [at : dirs, drifter : BOOLEAN, dir : dirs]

\* ---------------------------------------------------------- spawnCircle()
\* the special type chosen by the level-gated tests, in the code's order
SpecialType_Ungated(level, roll) ==
    IF roll.fuse THEN "fuse"
    ELSE IF roll.splitter THEN "splitter"
    ELSE "none"
SpecialType(level, roll) ==
    IF level >= 5 /\ roll.fuse THEN "fuse"
    ELSE IF level >= 4 /\ roll.splitter THEN "splitter"
    ELSE "none"

NewCircle_StackedModifiers(level, roll) ==
    LET r0 == InitialRadiusPx * Milli
        base == [x |-> (roll.fx * (RectWidth - 2 * r0)) \div FracDen + r0,
                 y |-> (roll.fy * (RectHeight - 2 * r0)) \div FracDen + r0,
                 radius |-> r0, growth |-> InitialGrowth, clicks |-> 1,
                 driftX |-> 0, driftY |-> 0, type |-> "normal",
                 fuseTimeLeft |-> NoFuse]
        special == SpecialType(level, roll)
        c1 == IF level >= 2 /\ roll.armored
              THEN [base EXCEPT !.clicks = 2, !.type = "armored"] ELSE base
        c2 == IF level >= 3 /\ roll.drifter
              THEN [c1 EXCEPT !.driftX = roll.dir[1] * DriftSpeed,
                              !.driftY = roll.dir[2] * DriftSpeed,
                              !.type = "drifter"]
              ELSE c1
    IN  IF special = "fuse" THEN [c2 EXCEPT !.type = "fuse", !.fuseTimeLeft = FuseMs]
        ELSE IF special = "splitter" THEN [c2 EXCEPT !.type = "splitter"]
        ELSE c2
NewCircle(level, roll) ==
    LET r0 == InitialRadiusPx * Milli
        base == [x |-> (roll.fx * (RectWidth - 2 * r0)) \div FracDen + r0,
                 y |-> (roll.fy * (RectHeight - 2 * r0)) \div FracDen + r0,
                 radius |-> r0, growth |-> InitialGrowth, clicks |-> 1,
                 driftX |-> 0, driftY |-> 0, type |-> "normal",
                 fuseTimeLeft |-> NoFuse]
        special == SpecialType(level, roll)
        isArmored == level >= 2 /\ roll.armored
        isDrifter == level >= 3 /\ roll.drifter
        c1 == IF isArmored THEN [base EXCEPT !.clicks = 2, !.type = "armored"] ELSE base
        c2 == IF isDrifter
              THEN [c1 EXCEPT !.driftX = roll.dir[1] * DriftSpeed,
                              !.driftY = roll.dir[2] * DriftSpeed,
                              !.type = "drifter"]
              ELSE c1
    IN  IF special = "fuse" THEN [base EXCEPT !.type = "fuse", !.fuseTimeLeft = FuseMs]
        ELSE IF special = "splitter" THEN [base EXCEPT !.type = "splitter"]
        ELSE c2

\* --------------------------------------------------------- handleFusePop()
\* c.radius *= factor; c.radius = Math.max(c.radius, 5)
ShockRadius_NoFloor(r, isGood) ==
    IF isGood THEN (r * 8) \div 10 ELSE (r * 12) \div 10
ShockRadius(r, isGood) ==
    Max(IF isGood THEN (r * 8) \div 10 ELSE (r * 12) \div 10, ShockMinRadiusPx * Milli)
\* every circle of the array except the fuse circle itself, at index `at`
\* (0 when the fuse circle is not in the array)
HandleFusePop_Twice(cs, at, isGood) ==
    [j \in 1..Len(cs) |->
        IF j # at
        THEN [cs[j] EXCEPT !.radius = ShockRadius(ShockRadius(@, isGood), isGood)]
        ELSE cs[j]]
HandleFusePop(cs, at, isGood) ==
    [j \in 1..Len(cs) |->
        IF j # at THEN [cs[j] EXCEPT !.radius = ShockRadius(@, isGood)] ELSE cs[j]]

\* --------------------------------------------------- spawnSplitterChildren()
ChildRadius_NoFloor(r) == r \div 2
ChildRadius(r) == Max(ChildMinRadiusPx * Milli, r \div 2)
ChildGrowth(g) == (g * 12) \div 10
NewChild(parent, roll) ==
    LET base == [x |-> parent.x + roll.at[1] * parent.radius,
                 y |-> parent.y + roll.at[2] * parent.radius,
                 radius |-> ChildRadius(parent.radius),
                 growth |-> ChildGrowth(parent.growth), clicks |-> 1,
                 driftX |-> 0, driftY |-> 0, type |-> "normal",
                 fuseTimeLeft |-> NoFuse]
    IN  IF roll.drifter
        THEN [base EXCEPT !.driftX = roll.dir[1] * ChildDriftSpeed,
                          !.driftY = roll.dir[2] * ChildDriftSpeed,
                          !.type = "drifter"]
        ELSE base
SpawnSplitterChildren(cs, parent, roll1, roll2) ==
    Append(Append(cs, NewChild(parent, roll1)), NewChild(parent, roll2))

\* ------------------------------------------------- circle click handler
\* The click handler of a circle's element (lines 278-298; the handler of a
\* splitter child, lines 353-360, is the same code for a one-click circle of
\* type normal or drifter).  `c` is the circle object the handler captured
\* and `at` its index in the array, 0 when it is no longer there.
\* Result: the array, the circle object and the score after the click, and
\* whether the handler removed the element.
ClickResult_ScoresEveryHit(cs, sc, running, isPaused, c, at, roll1, roll2) ==
    IF ~running \/ isPaused
    THEN [circles |-> cs, circle |-> c, score |-> sc, removed |-> FALSE]
    ELSE IF c.clicks > 1
    THEN LET c1 == [c EXCEPT !.clicks = @ - 1] IN
         [circles |-> IF at > 0 THEN [cs EXCEPT ![at] = c1] ELSE cs,
          circle |-> c1, score |-> sc + 1, removed |-> FALSE]
    ELSE LET a == IF c.type = "splitter" THEN SpawnSplitterChildren(cs, c, roll1, roll2)
                  ELSE IF c.type = "fuse" THEN HandleFusePop(cs, at, TRUE)
                  ELSE cs
         IN  [circles |-> Splice(a, at), circle |-> c, score |-> sc + 1, removed |-> TRUE]
ClickResult(cs, sc, running, isPaused, c, at, roll1, roll2) ==
    IF ~running \/ isPaused
    THEN [circles |-> cs, circle |-> c, score |-> sc, removed |-> FALSE]
    ELSE IF c.clicks > 1
    THEN LET c1 == [c EXCEPT !.clicks = @ - 1] IN
         [circles |-> IF at > 0 THEN [cs EXCEPT ![at] = c1] ELSE cs,
          circle |-> c1, score |-> sc, removed |-> FALSE]
    ELSE LET a == IF c.type = "splitter" THEN SpawnSplitterChildren(cs, c, roll1, roll2)
                  ELSE IF c.type = "fuse" THEN HandleFusePop(cs, at, TRUE)
                  ELSE cs
         IN  [circles |-> Splice(a, at), circle |-> c, score |-> sc + 1, removed |-> TRUE]

\* click on the element of circles[i]
CircleClick(i, roll1, roll2) ==
    /\ i \in 1..Len(circles)
    /\ LET r == ClickResult(circles, score, gameRunning, paused, circles[i], i, roll1, roll2) IN
        /\ Len(r.circles) <= MaxCircles
        /\ r.score <= MaxScore
        /\ circles' = r.circles
        /\ staleElems' = IF r.removed THEN Detach(staleElems, circles[i]) ELSE staleElems
        /\ score' = r.score
        /\ bestLevel' = IF r.removed THEN BestAfterUI(bestLevel, currentLevel) ELSE bestLevel
    /\ UNCHANGED <<gameRunning, paused, currentLevel, timeLeft, baseSpawnInterval,
                   spawnInterval, warpActive, nextWarpAt, warpEndAt, resumeAfterHelp,
                   overlayHidden, helpHidden, timerVars, frameVars, lastUpdateTime,
                   roundEnd>>

\* ------------------------------------------------- spawnNext() callback
\* sp0/st0: the pending timeouts once the firing one has been consumed
SpawnCallback(roll, sp0, st0) ==
    /\ Len(circles) < MaxCircles
    /\ MaySpawn(baseSpawnInterval, currentLevel)
    /\ circles' = Append(circles, NewCircle(currentLevel, roll))
    /\ baseSpawnInterval' = NextBaseInterval(baseSpawnInterval)
    /\ spawnInterval' = EffectiveInterval(NextBaseInterval(baseSpawnInterval), warpActive)
    /\ SpawnNext(sp0, st0)
    /\ UNCHANGED <<staleElems, gameRunning, paused, currentLevel, timeLeft, score,
                   warpActive, nextWarpAt, warpEndAt, resumeAfterHelp, overlayHidden,
                   helpHidden, frameVars, bestLevel, roundEnd>>

\* setTimeout(.., spawnInterval): the timeout named by spawnTimeoutId was
\* scheduled by the handler that last set lastUpdateTime from
\* performance.now(), or later; when it fires its delay has elapsed
AfterDelay(ref) == IF ref = "now" THEN "past" ELSE ref

\* the timeout named by spawnTimeoutId fires
SpawnTimeout(roll) ==
    /\ spawnPending
    /\ SpawnCallback(roll, FALSE, strayTimeouts)
    /\ lastUpdateTime' = AfterDelay(lastUpdateTime)
\* a timeout whose id was overwritten without clearTimeout fires (it was
\* scheduled earlier, and may be due at any instant)
StraySpawnTimeout(roll) ==
    /\ strayTimeouts > 0
    /\ SpawnCallback(roll, spawnPending, strayTimeouts - 1)
    /\ UNCHANGED lastUpdateTime

\* ------------------------------------------------------------- update()
\* Math.min(rect.width, rect.height) / 2
MaxR == Min(RectWidth, RectHeight) \div 2

\* the timer test that ends the level
TimeUp_Strict(t) == t < 0
TimeUp(t) == t <= 0
\* the radius test that ends the game
Lethal(r) == r >= MaxR

\* circle.radius += growth * dt; circle.x += driftX * dt; circle.y += driftY * dt
Advance_NoGrowth(c, dt) ==
    [c EXCEPT !.x = @ + c.driftX * dt,
              !.y = @ + c.driftY * dt]
Advance(c, dt) ==
    [c EXCEPT !.radius = @ + c.growth * dt,
              !.x = @ + c.driftX * dt,
              !.y = @ + c.driftY * dt]

\* bounce off the walls if drifting
BounceX(c) ==
    IF c.x - c.radius < 0
    THEN [c EXCEPT !.x = c.radius, !.driftX = Abs(c.driftX)]
    ELSE IF c.x + c.radius > RectWidth
    THEN [c EXCEPT !.x = RectWidth - c.radius, !.driftX = -Abs(c.driftX)]
    ELSE c
BounceY(c) ==
    IF c.y - c.radius < 0
    THEN [c EXCEPT !.y = c.radius, !.driftY = Abs(c.driftY)]
    ELSE IF c.y + c.radius > RectHeight
    THEN [c EXCEPT !.y = RectHeight - c.radius, !.driftY = -Abs(c.driftY)]
    ELSE c
Bounce(c) == IF c.driftX # 0 \/ c.driftY # 0 THEN BounceY(BounceX(c)) ELSE c

\* for (const circle of circles) { ... }: the array iterator reads
\* circles[i] and moves to i + 1 whatever the body did to the array, so the
\* element that follows a circle removed by removeCircle() is not visited.
\* Result: the array and the attached elements when the loop ends, and
\* whether it ended in gameOver().
RECURSIVE UpdateLoop(_, _, _, _)
UpdateLoop(cs, stale, i, dt) ==
    IF i > Len(cs) THEN [circles |-> cs, stale |-> stale, over |-> FALSE]
    ELSE
      LET c1 == Advance(cs[i], dt)
          isFuse == c1.type = "fuse" /\ c1.fuseTimeLeft # NoFuse
          c2 == IF isFuse THEN [c1 EXCEPT !.fuseTimeLeft = @ - dt] ELSE c1
      IN  IF isFuse /\ c2.fuseTimeLeft <= 0
          THEN LET popped == HandleFusePop([cs EXCEPT ![i] = c2], i, FALSE)
               IN  UpdateLoop(Splice(popped, i), Detach(stale, c2), i + 1, dt)
          ELSE LET c3 == Bounce(c2) IN
               IF Lethal(c3.radius)
               THEN [circles |-> [cs EXCEPT ![i] = c3], stale |-> stale, over |-> TRUE]
               ELSE UpdateLoop([cs EXCEPT ![i] = c3], stale, i + 1, dt)

\* the time-warp branch of update(), for levels 6 and above
WarpBegins_Ungated(level, elapsed) == ~warpActive /\ elapsed >= nextWarpAt
WarpBegins(level, elapsed) == level >= 6 /\ ~warpActive /\ elapsed >= nextWarpAt
WarpEnds(level, elapsed) == level >= 6 /\ warpActive /\ elapsed >= warpEndAt

\* The frame timestamps the host can deliver.  The timestamp of a frame is
\* the time at which the frame began: it may lie at or before a
\* performance.now() that a handler read during the same frame, and a second
\* callback of the same frame receives the same timestamp as the first.
\* (A timestamp at or before the reference is explored for the first tick of
\* a round, while the round timer is still full.)
TimestampPossible(dt, otherCallbacks) ==
    \/ dt > 0
    \/ lastUpdateTime = "now" /\ timeLeft = RoundMs
    \/ dt = 0 /\ otherCallbacks

\* levelComplete(); levels are explored up to `cap`
LevelCompleteCall(cap) ==
    /\ currentLevel < cap
    /\ spawnPending' = FALSE
    /\ framePending' = FALSE
    /\ circles' = <<>>
    /\ staleElems' = DetachAll(staleElems, circles)
    /\ currentLevel' = currentLevel + 1
    /\ timeLeft' = RoundMs
    /\ score' = 0
    /\ baseSpawnInterval' = LevelSpawnInterval(currentLevel + 1)
    /\ spawnInterval' = LevelSpawnInterval(currentLevel + 1)
    /\ bestLevel' = BestAfterUI(bestLevel, currentLevel + 1)
    /\ warpActive' = FALSE
    /\ nextWarpAt' = WarpIntervalMs
    /\ warpEndAt' = 0
    /\ overlayHidden' = FALSE
    /\ roundEnd' = "levelComplete"
    /\ UNCHANGED <<gameRunning, paused>>

\* gameOver()
GameOverCall ==
    /\ gameRunning' = FALSE
    /\ spawnPending' = FALSE
    /\ framePending' = FALSE
    /\ circles' = <<>>
    /\ staleElems' = DetachAll(staleElems, circles)
    /\ roundEnd' = "gameOver"
    /\ UNCHANGED <<paused, currentLevel, score, overlayHidden, bestLevel>>

\* update(timestamp) with dt = (timestamp - lastUpdateTime) / 1000.
\* fp0/sf0: the pending frame requests once the running one is consumed.
Update(dt, fp0, sf0, cap) ==
    IF ~gameRunning
    THEN /\ framePending' = fp0
         /\ strayFrames' = sf0
         /\ UNCHANGED <<roundVars, timerVars, lastUpdateTime, bestLevel, roundEnd,
                        overlayHidden>>
    ELSE IF paused
    THEN /\ RequestFrame(fp0, sf0)
         /\ UNCHANGED <<roundVars, timerVars, lastUpdateTime, bestLevel, roundEnd,
                        overlayHidden>>
    ELSE
      /\ TimestampPossible(dt, fp0 \/ sf0 > 0)
      /\ lastUpdateTime' = "frame"
      /\ IF TimeUp(timeLeft - dt)
         THEN /\ LevelCompleteCall(cap)
              /\ strayFrames' = sf0
              /\ UNCHANGED strayTimeouts
         ELSE
           LET elapsed == RoundMs - (timeLeft - dt)
               loop == UpdateLoop(circles, staleElems, 1, dt)
           IN
           /\ timeLeft' = timeLeft - dt
           /\ IF WarpBegins(currentLevel, elapsed)
              THEN /\ warpActive' = TRUE
                   /\ warpEndAt' = nextWarpAt + WarpDurationMs
                   /\ spawnInterval' = WarpFactor(baseSpawnInterval)
                   /\ UNCHANGED nextWarpAt
              ELSE IF WarpEnds(currentLevel, elapsed)
              THEN /\ warpActive' = FALSE
                   /\ spawnInterval' = baseSpawnInterval
                   /\ nextWarpAt' = nextWarpAt + WarpIntervalMs
                   /\ UNCHANGED warpEndAt
              ELSE UNCHANGED <<warpActive, warpEndAt, spawnInterval, nextWarpAt>>
           /\ UNCHANGED baseSpawnInterval
           /\ IF loop.over
              THEN /\ GameOverCall
                   /\ strayFrames' = sf0
                   /\ UNCHANGED strayTimeouts
              ELSE /\ circles' = loop.circles
                   /\ staleElems' = loop.stale
                   /\ bestLevel' = BestAfterUI(bestLevel, currentLevel)
                   /\ RequestFrame(fp0, sf0)
                   /\ UNCHANGED <<gameRunning, paused, currentLevel, score, timerVars,
                                  roundEnd, overlayHidden>>

\* the frame request named by animationFrameId is served
Frame(dt, cap) ==
    /\ framePending
    /\ Update(dt, FALSE, strayFrames, cap)
    /\ UNCHANGED <<resumeAfterHelp, helpHidden>>
\* a frame request whose id was overwritten without cancelAnimationFrame is served
StrayFrame(dt, cap) ==
    /\ strayFrames > 0
    /\ Update(dt, framePending, strayFrames - 1, cap)
    /\ UNCHANGED <<resumeAfterHelp, helpHidden>>

\* ------------------------------------------------------------------- Next
\* Inputs explored.  Frame deltas are in ms; a spawn position is drawn at
\* fraction 0 of the free span; directions are along the x axis.
Fracs == {0}
MainDirs == {<<1, 0>>}
AllRolls == SpawnRolls(Fracs, MainDirs)
AllChild == ChildRolls(MainDirs)
PlainRolls == {r \in AllRolls : ~r.fuse /\ ~r.splitter /\ ~r.armored /\ ~r.drifter}
PlainChild == {r \in AllChild : ~r.drifter}
Dts == {3500, 30000}
ClockDts == {-500, 0, 3500, 30000}
RoundDts == {30000}
DeepLevel == 20      \* highest level explored by SpecLevels

\* Every command of the player, both callbacks; plain circles at the levels
\* reached by completing rounds and by the L1 debug button.
Next ==
    \/ StartClick
    \/ RestartClick
    \/ ResumeClick
    \/ OpenHelp
    \/ CloseHelp
    \/ ResetProgressClick
    \/ \E n \in {1} : DebugLevelClick(n)
    \/ \E roll \in PlainRolls : SpawnTimeout(roll)
    \/ \E roll \in PlainRolls : StraySpawnTimeout(roll)
    \/ \E i \in 1..MaxCircles : \E r1, r2 \in PlainChild : CircleClick(i, r1, r2)
    \/ \E dt \in Dts : Frame(dt, MaxLevel)
    \/ \E dt \in Dts : StrayFrame(dt, MaxLevel)

Spec == Init /\ [][Next]_vars

\* The simulation at level 5 (the L5 debug button), where normal, armored,
\* fuse and splitter circles spawn, up to the completion of that level.
StillRolls == {r \in AllRolls : ~r.drifter}
NextPlay ==
    \/ OpenHelp
    \/ \E n \in {5} : DebugLevelClick(n)
    \/ \E roll \in StillRolls : SpawnTimeout(roll)
    \/ \E i \in 1..MaxCircles : \E r1, r2 \in PlainChild : CircleClick(i, r1, r2)
    \/ \E dt \in Dts : Frame(dt, DebugLevels)

SpecPlay == Init /\ [][NextPlay]_vars

\* The frame clock: timestamps at, before and after the clock reference.
\* (Without the pause toggle no handle is ever overwritten while pending.)
NextClock ==
    \/ StartClick
    \/ RestartClick
    \/ \E roll \in PlainRolls : SpawnTimeout(roll)
    \/ \E i \in 1..MaxCircles : \E r1, r2 \in PlainChild : CircleClick(i, r1, r2)
    \/ \E dt \in ClockDts : Frame(dt, MaxLevel)

SpecClock == Init /\ [][NextClock]_vars

\* Level progression: whole rounds survived one after the other, each begun
\* with the start button and played with hits on plain circles.
NextLevels ==
    \/ StartClick
    \/ \E roll \in PlainRolls : SpawnTimeout(roll)
    \/ \E i \in 1..MaxCircles : \E r1, r2 \in PlainChild : CircleClick(i, r1, r2)
    \/ \E dt \in RoundDts : Frame(dt, DeepLevel)

SpecLevels == Init /\ [][NextLevels]_vars

\* Hits, shockwaves and ticks on small and large circles.  The round is a
\* level-5 round in progress (begun with the L5 debug button, spawns fired); the
\* radius of each circle present is drawn from TestRadii: 15 px as spawned,
\* 6.144 px and 5 px as left by earlier shrinking.
TestRadii == {5000, 6144, 15000}
TestCircles ==
    {[NewCircle(5, roll) EXCEPT !.radius = r] : roll \in StillRolls, r \in TestRadii}
InitShock ==
    /\ circles \in UNION {[1..n -> TestCircles] : n \in 1..MaxCircles}
    /\ staleElems = <<>>
    /\ gameRunning = TRUE
    /\ paused = FALSE
    /\ currentLevel = 5
    /\ timeLeft = RoundMs
    /\ baseSpawnInterval = NextBaseInterval(LevelSpawnInterval(5))
    /\ spawnInterval = NextBaseInterval(LevelSpawnInterval(5))
    /\ score = 0
    /\ warpActive = FALSE
    /\ nextWarpAt = WarpIntervalMs
    /\ warpEndAt = 0
    /\ resumeAfterHelp = FALSE
    /\ overlayHidden = FALSE
    /\ helpHidden = TRUE
    /\ spawnPending = TRUE
    /\ strayTimeouts = 0
    /\ framePending = TRUE
    /\ strayFrames = 0
    /\ lastUpdateTime = "past"
    /\ bestLevel = 5
    /\ roundEnd = "none"
NextShock ==
    \/ \E i \in 1..MaxCircles : \E r1, r2 \in AllChild : CircleClick(i, r1, r2)
    \/ \E dt \in Dts : Frame(dt, DebugLevels)

SpecShock == InitShock /\ [][NextShock]_vars

\* Time warp: a level-6 round (the L6 debug button) ticked in steps of 3 s and
\* 8 s, with plain circles spawned and hit.
WarpDts == {3000, 8000}
NextWarp ==
    \/ OpenHelp
    \/ \E n \in {6} : DebugLevelClick(n)
    \/ \E roll \in PlainRolls : SpawnTimeout(roll)
    \/ \E i \in 1..MaxCircles : \E r1, r2 \in PlainChild : CircleClick(i, r1, r2)
    \/ \E dt \in WarpDts : Frame(dt, DeepLevel)

SpecWarp == Init /\ [][NextWarp]_vars

\* The spawn director at every level: rounds begun with each debug button,
\* every outcome of the random draws, hits, ticks that end the round, and
\* reset-progress.
SpawnDts == {30000}
NextSpawn ==
    \/ OpenHelp
    \/ ResetProgressClick
    \/ \E n \in 1..DebugLevels : DebugLevelClick(n)
    \/ \E roll \in AllRolls : SpawnTimeout(roll)
    \/ \E i \in 1..MaxCircles : \E r1, r2 \in AllChild : CircleClick(i, r1, r2)
    \/ \E dt \in SpawnDts : Frame(dt, DebugLevels)

SpecSpawn == Init /\ [][NextSpawn]_vars

\* The frame clock in a level-4 round (the L4 debug button) with normal and
\* splitter circles, paused and resumed with the toggle: a timestamp 0.5 s
\* before the clock reference, and ticks that end the round.
ResumeDts == {-500, 30000}
SplitRolls == {r \in StillRolls : ~r.fuse /\ ~r.armored}
NextClockPlay ==
    \/ OpenHelp
    \/ ResumeClick
    \/ \E n \in {4} : DebugLevelClick(n)
    \/ \E roll \in SplitRolls : SpawnTimeout(roll)
    \/ \E i \in 1..MaxCircles : \E r1, r2 \in PlainChild : CircleClick(i, r1, r2)
    \/ \E dt \in ResumeDts : Frame(dt, DebugLevels)

SpecClockPlay == Init /\ [][NextClockPlay]_vars

\* Growth at level 1, in ticks of 0.1 s and 1 s.  The round is a level-1
\* round in progress: either 2 s have been ticked and the first spawn has
\* just fired (interval 2000 ms), or 3.8 s and the second has just fired
\* (interval 1800 ms), the first circle having grown to 15 + 20 * 1.8 px.
GrowDts == {100, 1000}
FirstRoll == CHOOSE r \in PlainRolls : TRUE
GrowStarts ==
    {[circles |-> <<NewCircle(1, FirstRoll)>>,
      timeLeft |-> RoundMs - 2000,
      base |-> NextBaseInterval(LevelSpawnInterval(1))],
     [circles |-> <<[NewCircle(1, FirstRoll) EXCEPT !.radius = @ + InitialGrowth * 1800],
                    NewCircle(1, FirstRoll)>>,
      timeLeft |-> RoundMs - 3800,
      base |-> NextBaseInterval(NextBaseInterval(LevelSpawnInterval(1)))]}
InitGrow ==
    /\ \E s \in GrowStarts :
         /\ circles = s.circles
         /\ timeLeft = s.timeLeft
         /\ baseSpawnInterval = s.base
         /\ spawnInterval = s.base
    /\ staleElems = <<>>
    /\ gameRunning = TRUE
    /\ paused = FALSE
    /\ currentLevel = 1
    /\ score = 0
    /\ warpActive = FALSE
    /\ nextWarpAt = WarpIntervalMs
    /\ warpEndAt = 0
    /\ resumeAfterHelp = FALSE
    /\ overlayHidden = TRUE
    /\ helpHidden = TRUE
    /\ spawnPending = TRUE
    /\ strayTimeouts = 0
    /\ framePending = TRUE
    /\ strayFrames = 0
    /\ lastUpdateTime = "frame"
    /\ bestLevel = 1
    /\ roundEnd = "none"
NextGrow ==
    \/ \E i \in 1..MaxCircles : \E r1, r2 \in PlainChild : CircleClick(i, r1, r2)
    \/ \E dt \in GrowDts : Frame(dt, MaxLevel)

SpecGrow == InitGrow /\ [][NextGrow]_vars

\* Scoring: rounds of level 1 and 2 begun with the start button, a level-5
\* round begun with the L5 debug button, restarts, and hits on normal,
\* armored and fuse circles between ticks of 3.5 s.  The draw for an armored
\* circle succeeds wherever it is made: circles are normal at level 1,
\* armored at level 2, fuse or armored at level 5.
ScoreRolls == {r \in StillRolls : ~r.splitter /\ r.armored}
NextScore ==
    \/ StartClick
    \/ RestartClick
    \/ OpenHelp
    \/ \E n \in {5} : DebugLevelClick(n)
    \/ \E roll \in ScoreRolls : SpawnTimeout(roll)
    \/ \E i \in 1..MaxCircles : \E r1, r2 \in PlainChild : CircleClick(i, r1, r2)
    \/ \E dt \in Dts : Frame(dt, MaxLevel)

SpecScore == Init /\ [][NextScore]_vars

\* The spawn timer at deep levels and under time warp: whole rounds survived
\* one after the other up to DeepLevel, ticked in steps of 8 s (a warp window
\* opens on the first tick of a round at level >= 6 and closes on the second),
\* with normal and armored circles spawned and hit.
DeepDts == {8000, 30000}
DeepRolls == {r \in StillRolls : ~r.fuse /\ ~r.splitter}
NextDeep ==
    \/ StartClick
    \/ \E roll \in DeepRolls : SpawnTimeout(roll)
    \/ \E i \in 1..MaxCircles : \E r1, r2 \in PlainChild : CircleClick(i, r1, r2)
    \/ \E dt \in DeepDts : Frame(dt, DeepLevel)

SpecDeep == Init /\ [][NextDeep]_vars

\* Time warp across resets: a level-6 round ticked in steps of 8 s (a warp
\* window opens on the first tick and closes on the second), restarted, left by jumping to level 6 again or by completing the level, at
\* any moment of the warp cycle.
NextWarpReset ==
    \/ RestartClick
    \/ OpenHelp
    \/ \E n \in {6} : DebugLevelClick(n)
    \/ \E roll \in PlainRolls : SpawnTimeout(roll)
    \/ \E i \in 1..MaxCircles : \E r1, r2 \in PlainChild : CircleClick(i, r1, r2)
    \/ \E dt \in DeepDts : Frame(dt, DeepLevel)

SpecWarpReset == Init /\ [][NextWarpReset]_vars

\* The level gate of the time warp: rounds of level 5 and level 6 begun with
\* the debug buttons and ticked in steps of 8 s, left by jumping to the other
\* level or by reset-progress at any moment of the warp cycle.
NextWarpGate ==
    \/ OpenHelp
    \/ ResetProgressClick
    \/ \E n \in {5, 6} : DebugLevelClick(n)
    \/ \E roll \in PlainRolls : SpawnTimeout(roll)
    \/ \E i \in 1..MaxCircles : \E r1, r2 \in PlainChild : CircleClick(i, r1, r2)
    \/ \E dt \in DeepDts : Frame(dt, DebugLevels)

SpecWarpGate == Init /\ [][NextWarpGate]_vars

\* Drift and bounce beside fuses: a level-5 round (the L5 debug button) in
\* which every circle spawned is a drifter or a fuse.
DriftRolls == {r \in AllRolls : ~r.splitter /\ ~r.armored /\ (r.drifter \/ r.fuse)}
NextDrift ==
    \/ OpenHelp
    \/ \E n \in {5} : DebugLevelClick(n)
    \/ \E roll \in DriftRolls : SpawnTimeout(roll)
    \/ \E i \in 1..MaxCircles : \E r1, r2 \in PlainChild : CircleClick(i, r1, r2)
    \/ \E dt \in Dts : Frame(dt, DebugLevels)

SpecDrift == Init /\ [][NextDrift]_vars

\* Progress of a round left to itself: rounds begun with the start button,
\* plain circles spawned and hit, no pause, restart, jump or reset.  The host
\* serves a pending frame request at its next repaint, so a frame callback
\* that stays requested is eventually run (weak fairness of LiveFrame); its
\* timestamp is later than the previous one (dt > 0).
LiveFrame == \E dt \in Dts : Frame(dt, MaxLevel)
NextLive ==
    \/ StartClick
    \/ \E roll \in PlainRolls : SpawnTimeout(roll)
    \/ \E i \in 1..MaxCircles : \E r1, r2 \in PlainChild : CircleClick(i, r1, r2)
    \/ LiveFrame

SpecLive == Init /\ [][NextLive]_vars /\ WF_vars(LiveFrame)

\* ================================================================ claims

\* C1: whenever the round is not Running (Ready, Paused, LevelComplete or
\* GameOver) no spawn timer is pending.
C1_NoSpawnTimerUnlessRunning == ~Running => PendingSpawns = 0

\* C2: in every reachable state at most one spawn timer is pending, i.e.
\* there is at most one self-rescheduling spawn chain.
C2_AtMostOneSpawnChain == PendingSpawns <= 1

\* C3: no completed simulation step leaves the round Running while a live
\* entity is at or above the lethal radius (half the smaller play-area
\* dimension).
C3_NoLethalCircleWhileRunning ==
    Running => \A i \in 1..Len(circles) : circles[i].radius < MaxR

\* C4: a frame tick of a running, unpaused game completes the level (the
\* level counter increases and the round is in LevelComplete) if and only if
\* the tick brings the round timer to <= 0; such a tick never ends in GameOver.
C4_TickCompletesLevelIffTimerExpires ==
    [][\A dt \in Dts :
         (gameRunning /\ ~paused /\ Frame(dt, DebugLevels))
         => /\ (currentLevel' = currentLevel + 1 /\ roundEnd' = "levelComplete")
                <=> (timeLeft - dt <= 0)
            /\ (timeLeft - dt <= 0) => roundEnd' # "gameOver"]_vars
\* a tick has completed level 5
C4_Witness == roundEnd = "levelComplete" /\ currentLevel = DebugLevels /\ timeLeft = RoundMs

\* C5: the base spawn interval and the effective spawn interval are both
\* >= 300 ms in every reachable state.
C5_SpawnIntervalAtLeastMin ==
    /\ baseSpawnInterval >= MIN_SPAWN_INTERVAL * Milli
    /\ spawnInterval >= MIN_SPAWN_INTERVAL * Milli

C7_NonPositiveDtNotApplied ==
    [][\A dt \in ClockDts :
         (dt <= 0 /\ gameRunning /\ ~paused /\ Frame(dt, MaxLevel))
         => /\ timeLeft' <= timeLeft
            /\ Len(circles') = Len(circles)
               => \A i \in 1..Len(circles) : circles'[i].radius >= circles[i].radius]_vars

\* C8: while the round stays Paused, the round timer, the entities, the
\* score, the base spawn interval and the time-warp state do not change.
C8_PausedFreezesRound ==
    [][(Paused /\ Paused')
       => UNCHANGED <<timeLeft, circles, score, baseSpawnInterval, warpActive,
                      nextWarpAt, warpEndAt>>]_vars

\* C9: a second pause with no resume in between (the help-overlay auto-pause
\* on a Paused round) leaves the round state, the pending timers and the
\* pending resume-after-help decision as they were.
C9_SecondPauseChangesNothing ==
    [][(Paused /\ OpenHelp)
       => UNCHANGED <<roundVars, timerVars, frameVars, resumeAfterHelp>>]_vars

\* C10: in GameOver every step leaves the round state unchanged, except an
\* explicit restart, which begins a round at level 1 (or returns to Ready at
\* level 1), and the jump-to-level command.
C10_GameOverTerminalUntilRestartAtLevel1 ==
    [][GameOver
       => \/ GameOver' /\ UNCHANGED roundVars
          \/ Running' /\ currentLevel' = 1
          \/ Ready' /\ currentLevel' = 1
          \/ \E n \in 1..DebugLevels : DebugLevelClick(n)]_vars

\* C11: the tick on which the round timer expires increases the level by
\* exactly 1, empties the collection, sets the score to 0, the timer to 30 s,
\* both spawn intervals to 2000 * 0.9^(newLevel-1) ms and resets the time
\* warp (inactive, next warp at 8 s); the start command that follows enters
\* Running at that level with exactly these values.
C11_LevelCompleteThenStartIsFresh ==
    [][LET Fresh(level) ==
               /\ currentLevel' = level
               /\ circles' = <<>>
               /\ score' = 0
               /\ timeLeft' = RoundMs
               /\ baseSpawnInterval' = Pow09(BASE_SPAWN_INTERVAL * Milli, level - 1)
               /\ spawnInterval' = Pow09(BASE_SPAWN_INTERVAL * Milli, level - 1)
               /\ ~warpActive'
               /\ nextWarpAt' = WarpIntervalMs
       IN  /\ \A dt \in RoundDts :
                (gameRunning /\ ~paused /\ timeLeft - dt <= 0 /\ Frame(dt, DeepLevel))
                => LevelComplete' /\ Fresh(currentLevel + 1)
           /\ (LevelComplete /\ StartClick) => Running' /\ Fresh(currentLevel)]_vars
\* the round of level 3 has been started after two completed levels
C11_Witness ==
    /\ Running /\ currentLevel = 3 /\ score = 0 /\ timeLeft = RoundMs
    /\ baseSpawnInterval = 1620 * Milli

\* C12: the restart-level command changes nothing unless the round is
\* Running or Paused; when it takes effect the round is Running with timer
\* 30 s, score 0, an empty collection, the level's spawn interval, the time
\* warp reset and the level counter unchanged.
C12_RestartOnlyWhileRunningOrPaused ==
    [][RestartClick
       => IF Running \/ Paused
          THEN /\ Running'
               /\ currentLevel' = currentLevel
               /\ timeLeft' = RoundMs
               /\ score' = 0
               /\ circles' = <<>>
               /\ baseSpawnInterval' = Pow09(BASE_SPAWN_INTERVAL * Milli, currentLevel - 1)
               /\ spawnInterval' = baseSpawnInterval'
               /\ ~warpActive' /\ nextWarpAt' = WarpIntervalMs
          ELSE UNCHANGED <<roundVars, timerVars, frameVars, roundEnd>>]_vars

\* C13: every step that takes the round into Running (start, resume by the
\* toggle, resume on closing help, restart-level, jump-to-level) sets the
\* frame clock reference to the instant of the step and leaves a freshly
\* scheduled spawn timer pending, so the dt of the next tick is measured
\* from the transition and holds no paused or idle time.
C13_EnteringRunningAnchorsClock ==
    [][(~Running /\ Running') => lastUpdateTime' = "now" /\ spawnPending']_vars
\* a round that had progressed and was paused has been resumed
C13_Witness ==
    Running /\ lastUpdateTime = "now" /\ timeLeft < RoundMs /\ spawnPending

\* C14: in a simulation step that runs to its end, every fuse whose countdown
\* the step brings to <= 0 is removed, each removal applies the bad shockwave
\* (radius becomes max(radius * 1.2, 5 px)) exactly once to every entity that
\* stays in the collection, whether before or after that entity's own growth
\* in the step, and the score does not change.  R is the set of fuses the
\* step explodes: the first fuse that is due is always among them.
C14_FuseExplosionRemovesAndShocksOnce ==
    [][\A dt \in Dts :
         (/\ gameRunning /\ ~paused /\ timeLeft - dt > 0
          /\ Frame(dt, DebugLevels)
          /\ gameRunning')
         => LET n == Len(circles)
                due == {i \in 1..n : /\ circles[i].type = "fuse"
                                     /\ circles[i].fuseTimeLeft # NoFuse
                                     /\ circles[i].fuseTimeLeft - dt <= 0}
                Bad(r) == IF (r * 12) \div 10 >= ShockMinRadiusPx * Milli
                          THEN (r * 12) \div 10 ELSE ShockMinRadiusPx * Milli
                BadK(r, k) == IF k = 0 THEN r
                              ELSE IF k = 1 THEN Bad(r)
                              ELSE IF k = 2 THEN Bad(Bad(r))
                              ELSE Bad(Bad(Bad(r)))
                Nth(S, m) == CHOOSE x \in S : Cardinality({y \in S : y < x}) = m - 1
            IN  /\ score' = score
                /\ due = {} => Len(circles') = n
                /\ due # {} =>
                     \E R \in SUBSET due :
                        /\ \A i \in due : (\A j \in due : i <= j) => i \in R
                        /\ Len(circles') = n - Cardinality(R)
                        /\ \A m \in 1..Len(circles') :
                             LET j == Nth((1..n) \ R, m)
                                 k == Cardinality(R)
                                 g == circles[j].growth * dt
                             IN  /\ circles'[m].type = circles[j].type
                                 /\ \/ \E a \in 0..k :
                                         circles'[m].radius
                                             = BadK(BadK(circles[j].radius, a) + g, k - a)
                                    \/ circles'[m].radius = BadK(circles[j].radius, k)
                        /\ \A m \in 1..Len(circles') :
                             circles'[m].type = "fuse" => circles'[m].fuseTimeLeft > 0]_vars
\* a fuse has exploded beside a freshly spawned entity, now at 15 px * 1.2
C14_Witness ==
    /\ Running
    /\ \E i \in 1..Len(circles) :
          circles[i].radius = (InitialRadiusPx * Milli * 12) \div 10

\* C15: a hit that destroys a fuse entity while the round is Running sets
\* every other entity's radius to max(radius * 0.8, 5 px) and changes nothing
\* else about it, removes the fuse entity, and increases the score by
\* exactly 1.
C15_FusePopShrinksOthersAndScores ==
    [][\A i \in 1..MaxCircles : \A r1, r2 \in AllChild :
         (/\ Running /\ i <= Len(circles) /\ circles[i].type = "fuse"
          /\ CircleClick(i, r1, r2))
         => LET n == Len(circles)
                Good(r) == IF (r * 8) \div 10 >= ShockMinRadiusPx * Milli
                           THEN (r * 8) \div 10 ELSE ShockMinRadiusPx * Milli
            IN  /\ score' = score + 1
                /\ Len(circles') = n - 1
                /\ \A j \in 1..n :
                     j # i => circles'[IF j > i THEN j - 1 ELSE j]
                                = [circles[j] EXCEPT !.radius = Good(@)]]_vars
\* a fuse has been destroyed by a hit beside a 15 px entity, now at 12 px
C15_Witness ==
    /\ score > 0
    /\ \E i \in 1..Len(circles) : circles[i].radius = (InitialRadiusPx * Milli * 8) \div 10

\* C16: a hit that destroys a splitter removes it and appends exactly two
\* children to the collection, each with radius max(10 px, parent radius / 2),
\* growth 1.2 times the parent's, one hit to destroy, no fuse countdown and
\* type normal or drifter; the other entities stay as they were.
C16_SplitterYieldsTwoChildren ==
    [][\A i \in 1..MaxCircles : \A r1, r2 \in AllChild :
         (/\ gameRunning /\ ~paused /\ i <= Len(circles)
          /\ circles[i].type = "splitter" /\ circles[i].clicks = 1
          /\ CircleClick(i, r1, r2))
         => LET n == Len(circles)
                p == circles[i]
                half == p.radius \div 2
            IN  /\ Len(circles') = n + 1
                /\ \A j \in 1..n :
                     j # i => circles'[IF j > i THEN j - 1 ELSE j] = circles[j]
                /\ \A m \in {n, n + 1} :
                     /\ circles'[m].radius
                          = (IF half >= ChildMinRadiusPx * Milli
                             THEN half ELSE ChildMinRadiusPx * Milli)
                     /\ 10 * circles'[m].growth = 12 * p.growth
                     /\ circles'[m].clicks = 1
                     /\ circles'[m].type \in {"normal", "drifter"}
                     /\ circles'[m].fuseTimeLeft = NoFuse]_vars
\* a splitter that had grown to 85 px has been split into two 42.5 px children
C16_Witness ==
    /\ Len(circles) = 2 /\ score > 0
    /\ \A m \in 1..2 : circles[m].radius = 42500 /\ circles[m].growth = 24

\* C17: at level >= 6 a tick on which the elapsed round time has reached
\* nextWarpAt while no warp is active starts the warp: the effective spawn
\* interval becomes base * 0.5 and the warp is due to end 3 s after that
\* nextWarpAt; a tick on which the elapsed time has reached that end while
\* the warp is active ends it: the effective interval is the base interval
\* again and nextWarpAt advances by exactly 8 s from its prior value; any
\* other tick leaves the warp state alone.
C17_WarpCycle ==
    [][\A dt \in WarpDts :
         (/\ gameRunning /\ ~paused /\ currentLevel >= 6 /\ timeLeft - dt > 0
          /\ Frame(dt, DeepLevel))
         => LET elapsed == RoundMs - (timeLeft - dt) IN
            IF ~warpActive /\ elapsed >= nextWarpAt
            THEN /\ warpActive'
                 /\ 2 * spawnInterval' <= baseSpawnInterval
                 /\ 2 * spawnInterval' + 1 >= baseSpawnInterval
                 /\ warpEndAt' = nextWarpAt + WarpDurationMs
                 /\ nextWarpAt' = nextWarpAt
            ELSE IF warpActive /\ elapsed >= warpEndAt
            THEN /\ ~warpActive'
                 /\ spawnInterval' = baseSpawnInterval
                 /\ nextWarpAt' = nextWarpAt + WarpIntervalMs
            ELSE UNCHANGED <<warpActive, spawnInterval, nextWarpAt, warpEndAt>>]_vars
\* the second warp of a level-6 round is active
C17_Witness ==
    /\ currentLevel = 6 /\ Running /\ warpActive
    /\ nextWarpAt = 2 * WarpIntervalMs
    /\ warpEndAt = 2 * WarpIntervalMs + WarpDurationMs

\* C18: every entity in the collection respects level gating: a fuse only at
\* level >= 5, a splitter only at level >= 4, a drifting entity only at
\* level >= 3, an armored or two-hit entity only at level >= 2; at level 1
\* every entity is normal, stationary and one-hit.
C18_LevelGating ==
    \A i \in 1..Len(circles) :
        LET c == circles[i] IN
        /\ c.type = "fuse" => currentLevel >= 5
        /\ c.type = "splitter" => currentLevel >= 4
        /\ (c.driftX # 0 \/ c.driftY # 0 \/ c.type = "drifter") => currentLevel >= 3
        /\ (c.clicks > 1 \/ c.type = "armored") => currentLevel >= 2
        /\ currentLevel = 1
           => c.type = "normal" /\ c.driftX = 0 /\ c.driftY = 0 /\ c.clicks = 1
\* at level 4 a splitter has spawned (the draw for a fuse is not made there)
C18_Witness ==
    /\ currentLevel = 4
    /\ \E i \in 1..Len(circles) : circles[i].type = "splitter"

\* C19: every entity in the collection satisfies the type invariants: its
\* fuse countdown is non-null if and only if its type is fuse, and an entity
\* of type fuse or splitter has exactly one hit remaining and zero velocity.
C19_TypeInvariants ==
    \A i \in 1..Len(circles) :
        LET c == circles[i] IN
        /\ (c.fuseTimeLeft # NoFuse) <=> (c.type = "fuse")
        /\ c.type \in {"fuse", "splitter"}
           => c.clicks = 1 /\ c.driftX = 0 /\ c.driftY = 0
\* a fuse and a splitter child are both in the collection
C19_Witness ==
    /\ \E i \in 1..Len(circles) : circles[i].type = "fuse"
    /\ \E i \in 1..Len(circles) : circles[i].growth > InitialGrowth

\* C20: in every reachable state every entity in the collection has
\* radius > 0 and at least one hit remaining.
C20_RadiusPositiveHitsAtLeastOne ==
    \A i \in 1..Len(circles) : circles[i].radius > 0 /\ circles[i].clicks >= 1

\* C21: a hit on a normal, armored or drifter entity while the round is
\* Running, when more than one hit remains, leaves exactly one hit remaining
\* and changes neither the score nor anything else in the collection; when
\* one hit remains it removes that entity, leaves the others as they were and
\* increases the score by exactly 1.
C21_HitDecrementsOrDestroys ==
    [][\A i \in 1..MaxCircles : \A r1, r2 \in AllChild :
         (/\ Running /\ i <= Len(circles)
          /\ circles[i].type \in {"normal", "armored", "drifter"}
          /\ CircleClick(i, r1, r2))
         => LET n == Len(circles) IN
            IF circles[i].clicks > 1
            THEN /\ score' = score
                 /\ Len(circles') = n
                 /\ circles'[i].clicks = 1
                 /\ circles' = [circles EXCEPT ![i].clicks = circles[i].clicks - 1]
            ELSE /\ score' = score + 1
                 /\ Len(circles') = n - 1
                 /\ \A j \in 1..n :
                      j # i => circles'[IF j > i THEN j - 1 ELSE j] = circles[j]]_vars
\* an armored entity has taken its first hit beside a destroyed one
C21_Witness ==
    /\ Running /\ score > 0
    /\ \E i \in 1..Len(circles) : circles[i].type = "armored" /\ circles[i].clicks = 1

\* C22: a tick with dt >= 0 that runs to its end adds exactly growth * dt to
\* the radius of every entity and changes nothing else about it (level 1: no
\* drift, no fuse), so no radius decreases; ten ticks of 0.1 s on a level-1
\* entity of radius 15 px and growth 20 px/s bring it to 35 px.
C22_AdvanceAddsGrowthTimesDt ==
    [][\A dt \in GrowDts :
         (/\ gameRunning /\ ~paused /\ dt >= 0 /\ Frame(dt, MaxLevel)
          /\ gameRunning' /\ roundEnd' = "none")
         => /\ Len(circles') = Len(circles)
            /\ \A i \in 1..Len(circles) :
                 /\ circles'[i].radius = circles[i].radius + circles[i].growth * dt
                 /\ circles'[i].radius >= circles[i].radius
                 /\ circles'[i] = [circles[i] EXCEPT !.radius = circles'[i].radius]]_vars
\* one second after it spawned at 2 s, the entity is at 35 px and untouched
C22_Witness ==
    /\ Running /\ timeLeft = RoundMs - 3000 /\ Len(circles) = 1
    /\ circles[1] = [NewCircle(1, FirstRoll) EXCEPT
                        !.radius = (InitialRadiusPx + InitialGrowth) * Milli]

\* C23: the score is never negative; it is 0 when a round enters Running by
\* start, next level, restart-level or jump-to-level; within a round it
\* changes only by +1, on a hit that destroys an entity: ticks that do not end
\* the round, spawn firings, fuse timeouts and non-destroying hits leave it
\* as it is.
C23_ScoreResetsAndCountsDestroyingHits ==
    [][/\ score' >= 0
       /\ (\/ StartClick
           \/ gameRunning /\ RestartClick
           \/ \E n \in 1..DebugLevels : DebugLevelClick(n))
          => Running' /\ score' = 0
       /\ score' # score
          => \/ /\ score' = 0
                /\ \/ StartClick
                   \/ RestartClick
                   \/ \E n \in 1..DebugLevels : DebugLevelClick(n)
                   \/ roundEnd = "none" /\ roundEnd' = "levelComplete"
             \/ /\ score' = score + 1
                /\ gameRunning /\ ~paused
                /\ \E i \in 1..Len(circles) : \E r1, r2 \in PlainChild :
                      circles[i].clicks = 1 /\ CircleClick(i, r1, r2)]_vars
\* two entities have been destroyed in a level-5 round that has been ticked
C23_Witness ==
    Running /\ currentLevel = 5 /\ score = 2 /\ timeLeft < RoundMs

\* C24: in every reachable state the remaining round time is within 0..30 s.
C24_TimeLeftWithinRound == timeLeft >= 0 /\ timeLeft <= RoundMs

\* C25: a simulation step after which some circle's edge is at or beyond the
\* boundary of the play area ends the game on that step.
C25_EdgeAtBoundaryEndsGame ==
    [][\A dt \in Dts :
         (/\ gameRunning /\ ~paused /\ Frame(dt, MaxLevel)
          /\ \E i \in 1..Len(circles') :
                \/ circles'[i].x - circles'[i].radius <= 0
                \/ circles'[i].x + circles'[i].radius >= RectWidth
                \/ circles'[i].y - circles'[i].radius <= 0
                \/ circles'[i].y + circles'[i].radius >= RectHeight)
         => GameOver']_vars

\* C26: in a simulation step that does not end the round, every entity that
\* is in the collection before and after the step has had its growth and its
\* fuse countdown applied exactly once (its drift too: the entities here do
\* not drift, so their position is unchanged), also when fuses explode in the
\* step.  R is the set of fuses the step removes; a survivor's radius is
\* radius + growth * dt, with the bad shockwave of each removed fuse applied
\* before or after the growth.
C26_EveryEntityAdvancedOncePerStep ==
    [][\A dt \in Dts :
         (/\ gameRunning /\ ~paused /\ timeLeft - dt > 0
          /\ Frame(dt, DebugLevels)
          /\ gameRunning')
         => LET n == Len(circles)
                due == {i \in 1..n : /\ circles[i].type = "fuse"
                                     /\ circles[i].fuseTimeLeft # NoFuse
                                     /\ circles[i].fuseTimeLeft - dt <= 0}
                Bad(r) == IF (r * 12) \div 10 >= ShockMinRadiusPx * Milli
                          THEN (r * 12) \div 10 ELSE ShockMinRadiusPx * Milli
                BadK(r, k) == IF k = 0 THEN r
                              ELSE IF k = 1 THEN Bad(r)
                              ELSE IF k = 2 THEN Bad(Bad(r))
                              ELSE Bad(Bad(Bad(r)))
                Nth(S, m) == CHOOSE x \in S : Cardinality({y \in S : y < x}) = m - 1
            IN  \E R \in SUBSET due :
                   /\ Len(circles') = n - Cardinality(R)
                   /\ \A m \in 1..Len(circles') :
                        LET j == Nth((1..n) \ R, m)
                            k == Cardinality(R)
                            g == circles[j].growth * dt
                        IN  /\ circles'[m].type = circles[j].type
                            /\ circles'[m].x = circles[j].x + circles[j].driftX * dt
                            /\ circles'[m].y = circles[j].y + circles[j].driftY * dt
                            /\ circles[j].type = "fuse"
                               => circles'[m].fuseTimeLeft = circles[j].fuseTimeLeft - dt
                            /\ \E a \in 0..k :
                                  circles'[m].radius
                                      = BadK(BadK(circles[j].radius, a) + g, k - a)]_vars

\* C27: while the round is in LevelComplete the pause/resume toggle changes
\* nothing of the round, its timers and its frame requests, and as long as
\* the round stays in LevelComplete the round timer and the collection do
\* not change.
C27_LevelCompleteIsInactive ==
    [][/\ (LevelComplete /\ ResumeClick)
          => UNCHANGED <<roundVars, timerVars, frameVars>>
       /\ (LevelComplete /\ LevelComplete')
          => UNCHANGED <<timeLeft, circles>>]_vars

\* C28: a firing of the spawn timer appends exactly one entity of radius
\* 15 px and growth 20 px/s and leaves the entities already present as they
\* were, sets the base interval to max(0.9 * base, 300 ms) and the effective
\* interval to the new base, or half of it while the warp is active, and
\* leaves exactly one spawn timer pending in place of the one that fired.
C28_SpawnFiringAddsOneAndReschedules ==
    [][\A roll \in DeepRolls :
         SpawnTimeout(roll)
         => LET n == Len(circles)
                scaled == (baseSpawnInterval * 9) \div 10
                floor == MIN_SPAWN_INTERVAL * Milli
            IN  /\ Len(circles') = n + 1
                /\ \A j \in 1..n : circles'[j] = circles[j]
                /\ circles'[n + 1].radius = InitialRadiusPx * Milli
                /\ circles'[n + 1].growth = InitialGrowth
                /\ baseSpawnInterval' = (IF scaled >= floor THEN scaled ELSE floor)
                /\ IF warpActive
                   THEN /\ 2 * spawnInterval' <= baseSpawnInterval'
                        /\ 2 * spawnInterval' + 1 >= baseSpawnInterval'
                   ELSE spawnInterval' = baseSpawnInterval'
                /\ spawnPending'
                /\ PendingSpawns' = PendingSpawns]_vars
\* the timer has fired during a warp window with the base interval at its floor
C28_Witness ==
    /\ Running /\ warpActive /\ Len(circles) > 0
    /\ baseSpawnInterval = MIN_SPAWN_INTERVAL * Milli
    /\ spawnInterval = (MIN_SPAWN_INTERVAL * Milli) \div 2

\* C29: in every reachable state the effective spawn interval is half the
\* base interval when the warp is active and the base interval when it is
\* not.
C29_EffectiveIntervalFollowsWarp ==
    IF warpActive
    THEN /\ 2 * spawnInterval <= baseSpawnInterval
         /\ 2 * spawnInterval + 1 >= baseSpawnInterval
    ELSE spawnInterval = baseSpawnInterval
\* a warp window is open in a round whose base interval has been accelerated
C29_Witness ==
    /\ Running /\ warpActive /\ spawnInterval < baseSpawnInterval
    /\ baseSpawnInterval < LevelSpawnInterval(currentLevel)

\* C30: in every reachable state with level < 6 the warp is inactive and the
\* effective spawn interval equals the base interval.
C30_NoWarpBelowLevel6 ==
    currentLevel < 6 => ~warpActive /\ spawnInterval = baseSpawnInterval
\* a level-5 round, entered after level 6 had been played, is past the 8 s
\* at which a warp would open
C30_Witness ==
    /\ Running /\ currentLevel = 5 /\ bestLevel = 6
    /\ RoundMs - timeLeft >= WarpIntervalMs

\* C31: after every simulation step that runs to its end each drifting entity
\* lies fully inside the play area (radius <= x <= width - radius and
\* radius <= y <= height - radius); and on a step that removes no entity, a
\* drifting entity whose edge crossed a wall during the step has no velocity
\* component left that points toward that wall.
C31_DriftersStayInside ==
    [][\A dt \in Dts :
         (/\ gameRunning /\ ~paused /\ timeLeft - dt > 0
          /\ Frame(dt, DebugLevels)
          /\ gameRunning')
         => /\ \A m \in 1..Len(circles') :
                 LET c == circles'[m] IN
                 (c.driftX # 0 \/ c.driftY # 0)
                 => /\ c.radius <= c.x /\ c.x <= RectWidth - c.radius
                    /\ c.radius <= c.y /\ c.y <= RectHeight - c.radius
            /\ Len(circles') = Len(circles)
               => \A i \in 1..Len(circles) :
                    LET c == circles[i]
                        r == c.radius + c.growth * dt
                        mx == c.x + c.driftX * dt
                        my == c.y + c.driftY * dt
                    IN  (c.driftX # 0 \/ c.driftY # 0)
                        => /\ mx - r < 0 => circles'[i].driftX >= 0
                           /\ (mx - r >= 0 /\ mx + r > RectWidth) => circles'[i].driftX <= 0
                           /\ my - r < 0 => circles'[i].driftY >= 0
                           /\ (my - r >= 0 /\ my + r > RectHeight) => circles'[i].driftY <= 0]_vars

\* C32: from any state, jump-to-level(n) leaves the round Running at level n
\* with timer 30 s, score 0, an empty collection, the warp inactive, base
\* spawn interval 2000 * 0.9^(n-1) ms, and exactly one spawn timer and one
\* frame callback pending.
C32_JumpToLevelStartsCleanRound ==
    [][\A n \in 1..DebugLevels :
         DebugLevelClick(n)
         => /\ Running'
            /\ currentLevel' = n
            /\ timeLeft' = RoundMs
            /\ score' = 0
            /\ circles' = <<>>
            /\ ~warpActive'
            /\ baseSpawnInterval' = Pow09(BASE_SPAWN_INTERVAL * Milli, n - 1)
            /\ PendingSpawns' = 1
            /\ PendingFrames' = 1]_vars

\* C33: opening help on a Running round pauses it, and closing help resumes
\* the round if and only if opening help was what paused it.  The only trace
\* the state keeps of who paused the round is resumeAfterHelp, which closing
\* help consults; so the claim is: opening help on a Running round leaves it
\* Paused; closing help on a Paused round resumes it exactly when
\* resumeAfterHelp is set; and a pause made with the pause control (before
\* or while help is open) leaves resumeAfterHelp unset, so that the round is
\* still Paused after help is closed.
C33_CloseHelpResumesOnlyHelpPause ==
    [][/\ (Running /\ OpenHelp) => Paused'
       /\ (Paused /\ CloseHelp) => (Running' <=> resumeAfterHelp)
       /\ (Running /\ ResumeClick) => (Paused' /\ ~resumeAfterHelp')]_vars

\* C34: after the reset-progress command the stored best level is cleared
\* (absent, i.e. 0) and the round is in Ready at level 1 with score 0, an
\* empty collection and no spawn timer or frame callback pending.
C34_ResetProgressClearsBestLevel ==
    [][ResetProgressClick
       => /\ bestLevel' = 0
          /\ Ready'
          /\ currentLevel' = 1
          /\ score' = 0
          /\ circles' = <<>>
          /\ PendingSpawns' = 0
          /\ PendingFrames' = 0]_vars

\* C35: if the round is Running, frame ticks keep arriving with dt > 0 and no
\* pause, restart, jump or reset command is issued, the round eventually
\* reaches LevelComplete or GameOver (rounds below the highest level
\* explored, whose completion is part of the exploration).
C35_RunningRoundEventuallyEnds ==
    (Running /\ currentLevel < MaxLevel) ~> (LevelComplete \/ GameOver)
\* a round that was ticked down without a hit has been completed
C35_Witness ==
    LevelComplete /\ currentLevel = 2 /\ score = 0 /\ ~framePending /\ ~spawnPending

====
